---- MODULE Spec2Model ----
(***************************************************************************)
(* Model of the text-to-image glue service of src/app.py: the POST         *)
(* /generate handler, the job submitter, the poller and the result         *)
(* extractor, with the inference provider and the image host as            *)
(* nondeterministic environments.                                           *)
(*                                                                         *)
(* Strings whose characters the code inspects (prompts, status words,      *)
(* URLs, base64 text) are sequences of one-character strings; a string the *)
(* code only passes on (a job id, a model id, a message) is a sequence of  *)
(* one element.  JSON values are tagged records; Python's None is the JSON *)
(* null.  Time is counted in ticks of the poller's clock.                   *)
(***************************************************************************)
EXTENDS Integers, Sequences, FiniteSets, TLC

----------------------------------------------------------------------------
(* Bounds of the model.                                                    *)

\* largest configured POLL_TIMEOUT (clock ticks) the model explores
MaxPollTimeout == 2
\* largest configured POLL_INTERVAL (clock ticks) the model explores
MaxPollInterval == 1
\* longest time (clock ticks) one status call may take
MaxCallTicks == 1

----------------------------------------------------------------------------
(* JSON values: [t, s, items].  A dict keeps its insertion order, as a     *)
(* Python dict does; a list's items carry the key "".                      *)

Null == [t |-> "null", s |-> <<>>, items |-> <<>>]

Str(chars) == [t |-> "str", s |-> chars, items |-> <<>>]

KV(key, val) == [k |-> key, v |-> val]

Dict(kvs) == [t |-> "dict", s |-> <<>>, items |-> kvs]

List(vals) == [t |-> "list", s |-> <<>>,
               items |-> [i \in 1..Len(vals) |-> KV("", vals[i])]]

\* Python truthiness of a JSON value: None, "", [] and {} are falsy
Truthy(v) ==
    CASE v.t = "null" -> FALSE
      [] v.t = "str"  -> Len(v.s) > 0
      [] OTHER        -> Len(v.items) > 0

\* a or b
Or(a, b) == IF Truthy(a) THEN a ELSE b

RECURSIVE GetFrom(_, _, _)
GetFrom(items, key, i) ==
    IF i > Len(items) THEN Null
    ELSE IF items[i].k = key THEN items[i].v
    ELSE GetFrom(items, key, i + 1)

\* d.get(key) on a dict: the value, or None when the key is absent
Get(d, key) == GetFrom(d.items, key, 1)

\* s.startswith("http")
StartsWithHttp(chars) ==
    /\ Len(chars) >= 4
    /\ SubSeq(chars, 1, 4) = <<"h", "t", "t", "p">>

\* isinstance(v, str) and v.startswith("http")
IsHttpStr(v) == v.t = "str" /\ StartsWithHttp(v.s)

LowerLetters == <<"a", "b", "c", "d", "e", "f", "g", "h", "i", "j", "k", "l", "m",
                  "n", "o", "p", "q", "r", "s", "t", "u", "v", "w", "x", "y", "z">>

UpperLetters == <<"A", "B", "C", "D", "E", "F", "G", "H", "I", "J", "K", "L", "M",
                  "N", "O", "P", "Q", "R", "S", "T", "U", "V", "W", "X", "Y", "Z">>

UpperChar(c) ==
    IF \E i \in 1..Len(LowerLetters) : LowerLetters[i] = c
    THEN UpperLetters[CHOOSE i \in 1..Len(LowerLetters) : LowerLetters[i] = c]
    ELSE c

\* the status compared as the provider spelled it
Upper_Skipped(chars) == chars

\* str.upper()
Upper(chars) == [i \in 1..Len(chars) |-> UpperChar(chars[i])]

Whitespace == {" ", "\t", "\n"}

RECURSIVE LStrip(_)
LStrip(chars) ==
    IF Len(chars) > 0 /\ Head(chars) \in Whitespace THEN LStrip(Tail(chars))
    ELSE chars

RECURSIVE RStrip(_)
RStrip(chars) ==
    IF Len(chars) > 0 /\ chars[Len(chars)] \in Whitespace
    THEN RStrip(SubSeq(chars, 1, Len(chars) - 1))
    ELSE chars

\* the prompt taken as posted
Strip_Skipped(chars) == chars

\* str.strip()
Strip(chars) == RStrip(LStrip(chars))

----------------------------------------------------------------------------
(* base64.b64decode(text), as binascii.a2b_base64 computes it when not in  *)
(* strict mode: characters outside the alphabet are skipped, a complete    *)
(* pad ends the input, leftover characters are an error.                   *)

B64Alphabet == <<"A", "B", "C", "D", "E", "F", "G", "H", "I", "J", "K", "L", "M",
                 "N", "O", "P", "Q", "R", "S", "T", "U", "V", "W", "X", "Y", "Z",
                 "a", "b", "c", "d", "e", "f", "g", "h", "i", "j", "k", "l", "m",
                 "n", "o", "p", "q", "r", "s", "t", "u", "v", "w", "x", "y", "z",
                 "0", "1", "2", "3", "4", "5", "6", "7", "8", "9", "+", "/">>

InB64Alphabet(c) == \E i \in 1..Len(B64Alphabet) : B64Alphabet[i] = c

B64Value(c) == (CHOOSE i \in 1..Len(B64Alphabet) : B64Alphabet[i] = c) - 1

RECURSIVE B64Scan(_, _, _, _, _, _)
B64Scan(chars, i, quad, left, pads, out) ==
    IF i > Len(chars) THEN [ok |-> quad = 0, bytes |-> out]
    ELSE LET c == chars[i] IN
         IF c = "="
         THEN IF quad >= 2 /\ quad + pads + 1 >= 4
              THEN [ok |-> TRUE, bytes |-> out]
              ELSE B64Scan(chars, i + 1, quad, left,
                           IF quad >= 2 THEN pads + 1 ELSE pads, out)
         ELSE IF ~InB64Alphabet(c)
         THEN B64Scan(chars, i + 1, quad, left, pads, out)
         ELSE LET v == B64Value(c) IN
              CASE quad = 0 -> B64Scan(chars, i + 1, 1, v, 0, out)
                [] quad = 1 -> B64Scan(chars, i + 1, 2, v % 16, 0,
                                       Append(out, (left * 4 + v \div 16) % 256))
                [] quad = 2 -> B64Scan(chars, i + 1, 3, v % 4, 0,
                                       Append(out, (left * 16 + v \div 4) % 256))
                [] OTHER    -> B64Scan(chars, i + 1, 0, 0, 0,
                                       Append(out, (left * 64 + v) % 256))

\* [ok, bytes]: ok is FALSE where b64decode raises binascii.Error
B64Decode(chars) == B64Scan(chars, 1, 0, 0, 0, <<>>)

----------------------------------------------------------------------------
(* extract_image_bytes: which image reference the payload resolves to.     *)

RECURSIVE find_url(_)
RECURSIVE find_url_in(_, _, _)

\* the two for loops of find_url: over a dict's values (a value that is an
\* http string is returned at once) and over a list's elements (each is only
\* searched by the recursive call)
find_url_in(items, i, isDict) ==
    IF i > Len(items) THEN Null
    ELSE LET v == items[i].v
             found == find_url(v)
         IN  IF isDict /\ IsHttpStr(v) THEN v
             ELSE IF Truthy(found) THEN found
             ELSE find_url_in(items, i + 1, isDict)

find_url(obj) ==
    IF obj.t \in {"dict", "list"}
    THEN find_url_in(obj.items, 1, obj.t = "dict")
    ELSE Null

\* what extraction does before any network traffic
Plan(kind, ref) == [kind |-> kind, ref |-> ref]

\* result_json.get("output") or result_json.get("outputs") or result_json.get("results")
OutputOf(result_json) ==
    Or(Get(result_json, "output"), Or(Get(result_json, "outputs"), Get(result_json, "results")))

\* the recursive search and what follows it
FallbackPlan(result_json) ==
    LET any_url == find_url(result_json)
    IN  IF Truthy(any_url) THEN Plan("fetch", any_url) ELSE Plan("none", Null)

\* the branch on the first element of the output list
OutputPlan(result_json) ==
    LET output == OutputOf(result_json)
        item   == output.items[1].v
    IN  IF output.t = "list" /\ Len(output.items) > 0
        THEN IF item.t = "dict" /\ Truthy(Get(item, "url"))
             THEN Plan("fetch", Get(item, "url"))
             ELSE IF item.t = "dict" /\ Truthy(Or(Get(item, "base64"), Get(item, "b64")))
             THEN Plan("b64", Or(Get(item, "base64"), Get(item, "b64")))
             ELSE IF IsHttpStr(item)
             THEN Plan("fetch", item)
             ELSE FallbackPlan(result_json)
        ELSE FallbackPlan(result_json)

\* the output list looked at before the top-level url
ExtractPlan_OutputFirst(result_json) ==
    IF result_json.t # "dict"
    THEN Plan("raise", Null)
    ELSE IF OutputPlan(result_json) # FallbackPlan(result_json)
    THEN OutputPlan(result_json)
    ELSE IF Truthy(Get(result_json, "url"))
    THEN Plan("fetch", Get(result_json, "url"))
    ELSE FallbackPlan(result_json)

\* "fetch" u: requests.get(u); "b64" t: b64decode(t); "none": (None, None);
\* "raise": result_json.get on a payload that is no dict (AttributeError)
ExtractPlan(result_json) ==
    IF result_json.t = "dict" /\ Truthy(Get(result_json, "url"))
    THEN Plan("fetch", Get(result_json, "url"))
    ELSE IF result_json.t # "dict"
    THEN Plan("raise", Null)
    ELSE OutputPlan(result_json)

\* streamlit_app.py, the branch on the first element of the output list:
\* the test for a string element stands inside the branch for a dict element
FirstOutputPlan(result_json) ==
    LET output == OutputOf(result_json)
        item   == output.items[1].v
    IN  IF output.t = "list" /\ Len(output.items) > 0
        THEN IF item.t = "dict"
             THEN IF Truthy(Get(item, "url"))
                  THEN Plan("fetch", Get(item, "url"))
                  ELSE IF Truthy(Or(Get(item, "base64"), Get(item, "b64")))
                  THEN Plan("b64", Or(Get(item, "base64"), Get(item, "b64")))
                  ELSE IF item.t = "str" /\ IsHttpStr(item)
                  THEN Plan("fetch", item)
                  ELSE FallbackPlan(result_json)
             ELSE FallbackPlan(result_json)
        ELSE FallbackPlan(result_json)

\* streamlit_app.py, extract_first_image_bytes; its find_url is that of app.py
\* line for line
extract_first_image_bytes(result_json) ==
    IF result_json.t = "dict" /\ Truthy(Get(result_json, "url"))
    THEN Plan("fetch", Get(result_json, "url"))
    ELSE IF result_json.t # "dict"
    THEN Plan("raise", Null)
    ELSE FirstOutputPlan(result_json)

----------------------------------------------------------------------------
(* The poller's vocabulary and its classification of one status reply.     *)

COMPLETE == <<"C", "O", "M", "P", "L", "E", "T", "E">>

SUCCEEDED == <<"S", "U", "C", "C", "E", "E", "D", "E", "D">>

SUCCESS == <<"S", "U", "C", "C", "E", "S", "S">>

FAILED == <<"F", "A", "I", "L", "E", "D">>

ERROR == <<"E", "R", "R", "O", "R">>

\* the state key never read
StateOf_StatusOnly(s) == Upper(Or(Get(s, "status"), Str(<<>>)).s)

\* (s.get("status") or s.get("state") or "").upper()
StateOf(s) == Upper(Or(Or(Get(s, "status"), Get(s, "state")), Str(<<>>)).s)

\* COMPLETE left out of the success words
IsSuccessState_NoComplete(state) == state \in {SUCCEEDED, SUCCESS}

\* state in ("COMPLETE", "SUCCEEDED", "SUCCESS")
IsSuccessState(state) == state \in {COMPLETE, SUCCEEDED, SUCCESS}

\* ERROR left out of the failure words
IsFailureState_NoError(state) == state \in {FAILED}

\* state in ("FAILED", "ERROR")
IsFailureState(state) == state \in {FAILED, ERROR}

\* the timeout reached one tick early
TimedOut_Early(waited, timeout) == waited >= timeout

\* time.time() - start > timeout
TimedOut(waited, timeout) == waited > timeout

----------------------------------------------------------------------------
(* Exceptions and responses.  A text is the sequence of its fragments; a   *)
(* value formatted into it, or sent as JSON, is the payload.               *)

Exc(type, text, payload) == [type |-> type, text |-> text, payload |-> payload]

NoExc == Exc("", <<>>, Null)

Resp(status, text, payload, bytes, mimetype) ==
    [status |-> status, text |-> text, payload |-> payload,
     bytes |-> bytes, mimetype |-> mimetype]

NoResp == Resp(0, <<>>, Null, <<>>, "")

\* the failure raised without the provider's reply
JobFailed_NoDetails(s) == Exc("RuntimeError", <<"Job failed">>, Null)

\* raise RuntimeError(f"Job failed: {s}")
JobFailed(s) == Exc("RuntimeError", <<"Job failed: ">>, s)

\* raise TimeoutError("Polling timed out")
PollTimeout == Exc("TimeoutError", <<"Polling timed out">>, Null)

\* r.raise_for_status() on an error status of the peer
HTTPError == Exc("HTTPError", <<"4xx/5xx">>, Null)

\* any other failure inside requests: no connection, a transport timeout,
\* a URL without a scheme, a body that is no JSON
RequestException == Exc("RequestException", <<"request failed">>, Null)

\* result_json.get on a value that has no get
AttributeError == Exc("AttributeError", <<"no attribute 'get'">>, Null)

\* base64.b64decode on text with leftover characters
BinasciiError == Exc("binascii.Error", <<"Incorrect padding">>, Null)

\* one except clause for every exception
HandleException_CatchAll(e) ==
    Resp(500, <<"Error: ">> \o e.text, e.payload, <<>>, "text/html")

\* the except clauses of generate, in their order
HandleException(e) ==
    IF e.type = "TimeoutError"
    THEN Resp(504, <<"Timed out: ">> \o e.text, e.payload, <<>>, "text/html")
    ELSE IF e.type = "HTTPError"
    THEN Resp(502, <<"HTTP error during inference: ">> \o e.text, e.payload, <<>>, "text/html")
    ELSE Resp(500, <<"Error: ">> \o e.text, e.payload, <<>>, "text/html")

\* return "Server not configured with DO_MODEL_ACCESS_KEY", 500
NotConfigured == Resp(500, <<"Server not configured with DO_MODEL_ACCESS_KEY">>, Null, <<>>, "text/html")

\* return "Prompt is required", 400
PromptRequired == Resp(400, <<"Prompt is required">>, Null, <<>>, "text/html")

\* return jsonify({"error": "unexpected async-invoke response", "resp": start}), 502
UnexpectedStart(reply) ==
    Resp(502, <<"unexpected async-invoke response">>, reply, <<>>, "application/json")

\* return jsonify({"error": "no image found in result", "result": final}), 502
NoImageFound(final) ==
    Resp(502, <<"no image found in result">>, final, <<>>, "application/json")

\* return send_file(BytesIO(img_bytes), mimetype=mime or "image/png")
SendFile(img_bytes, mime) ==
    Resp(200, <<>>, Null, img_bytes, IF mime = "" THEN "image/png" ELSE mime)

\* the declared Content-Type not read
ContentType_Ignored(headers) == "image/png"

\* r.headers.get("Content-Type", "image/png"): headers is the set of the
\* Content-Type values the reply declares, empty when it declares none
ContentType(headers) ==
    IF headers = {} THEN "image/png" ELSE CHOOSE h \in headers : TRUE

\* data.get("model_id") or "fal-ai/flux/schnell"
DefaultModel == Str(<<"fal-ai/flux/schnell">>)

\* the job id read from "id" before "request_id"
RequestIdOf_IdFirst(reply) ==
    Or(Get(reply, "id"), Or(Get(reply, "request_id"), Get(reply, "requestId")))

\* start.get("request_id") or start.get("id") or start.get("requestId")
RequestIdOf(reply) ==
    Or(Get(reply, "request_id"), Or(Get(reply, "id"), Get(reply, "requestId")))

----------------------------------------------------------------------------
(* The environment: what a client may post, what the provider may reply    *)
(* and what an image host may serve.                                        *)

\* POST /generate bodies: {prompt: string, model_id?: string}
RequestBodies ==
    {Dict(<<>>), Dict(<<KV("prompt", Null)>>), Dict(<<KV("model_id", Str(<<"m">>))>>)}
    \cup {Dict(<<KV("prompt", Str(p))>>) :
            p \in {<<>>, <<" ">>, <<" ", "\n", "\t">>, <<" ", "a", "\n">>}}
    \cup {Dict(<<KV("prompt", Str(p)), KV("model_id", Str(<<"m">>))>>) :
            p \in {<<"\n">>, <<"a", " ", "b">>}}

R1 == Str(<<"r1">>)

R2 == Str(<<"r2">>)

\* replies of the job-creation endpoint
StartReplies ==
    {Dict(<<>>),
     Dict(<<KV("request_id", R1)>>),
     Dict(<<KV("id", R2)>>),
     Dict(<<KV("requestId", R1)>>),
     Dict(<<KV("request_id", Str(<<>>))>>),
     Dict(<<KV("request_id", Str(<<>>)), KV("id", R2)>>),
     Dict(<<KV("request_id", Null), KV("requestId", R2)>>),
     Dict(<<KV("request_id", R1), KV("id", R2)>>),
     Dict(<<KV("requestId", R1), KV("id", R2)>>)}

S_success == <<"s", "u", "c", "c", "e", "s", "s">>

S_Succeeded == <<"S", "u", "c", "c", "e", "e", "d", "e", "d">>

S_complete == <<"c", "o", "m", "p", "l", "e", "t", "e">>

S_failed == <<"f", "a", "i", "l", "e", "d">>

S_Error == <<"E", "r", "r", "o", "r">>

S_running == <<"r", "u", "n", "n", "i", "n", "g">>

S_COMPLETED == <<"C", "O", "M", "P", "L", "E", "T", "E", "D">>

S_IN_QUEUE == <<"I", "N", "_", "Q", "U", "E", "U", "E">>

\* values of the status field
StatusWords ==
    {<<>>, COMPLETE, SUCCEEDED, SUCCESS, FAILED, ERROR, S_success, S_Succeeded, S_complete, S_failed,
     S_Error, S_running, S_COMPLETED, S_IN_QUEUE}

\* replies of the status endpoint
StatusReplies ==
    {Dict(<<>>), Dict(<<KV("status", Null)>>)}
    \cup {Dict(<<KV("status", Str(w))>>) : w \in StatusWords}
    \cup {Dict(<<KV("state", Str(w))>>) : w \in {SUCCEEDED, S_failed, S_running}}
    \cup {Dict(<<KV("status", e), KV("state", Str(w))>>) :
            e \in {Null, Str(<<>>)}, w \in {S_complete, ERROR}}
    \cup {Dict(<<KV("status", Str(S_running)), KV("state", Str(SUCCESS))>>),
          Dict(<<KV("status", Str(FAILED)), KV("reason", Str(<<"bad prompt">>))>>),
          Dict(<<KV("state", Str(S_Error)), KV("reason", Str(<<"bad prompt">>))>>)}

HttpA == Str(<<"h", "t", "t", "p", "a">>)

HttpB == Str(<<"h", "t", "t", "p", "b">>)

HttpC == Str(<<"h", "t", "t", "p", "c">>)

\* a string that is no URL
NotUrl == Str(<<"h", "t", "t">>)

\* base64 texts: of one byte, of three bytes, of no byte, and a malformed one
B64One == Str(<<"Q", "Q", "=", "=">>)

B64Three == Str(<<"Q", "U", "J", "D">>)

B64Empty == Str(<<"=">>)

B64Bad == Str(<<"Q">>)

\* first elements of an output list
OutputItems ==
    {Dict(<<KV("url", HttpB)>>),
     Dict(<<KV("url", HttpB), KV("base64", B64One)>>),
     Dict(<<KV("base64", B64One), KV("url", Str(<<>>))>>),
     Dict(<<KV("b64", B64Three)>>),
     Dict(<<KV("base64", Str(<<>>)), KV("b64", B64Three)>>),
     Dict(<<KV("base64", B64Empty)>>),
     Dict(<<KV("base64", B64Bad)>>),
     Dict(<<KV("image", HttpC)>>),
     Dict(<<KV("image", Dict(<<KV("src", HttpC)>>))>>),
     Dict(<<KV("images", List(<<HttpC>>))>>),
     Dict(<<>>),
     HttpB, NotUrl, Null, List(<<HttpB>>)}

\* the output part of a result payload
OutputParts ==
    {<<>>, <<KV("output", List(<<>>))>>, <<KV("output", NotUrl), KV("outputs", List(<<HttpB>>))>>}
    \cup {<<KV("output", List(<<i>>))>> : i \in OutputItems}
    \cup {<<KV("outputs", List(<<i, HttpC>>))>> : i \in {Dict(<<KV("url", HttpB)>>), HttpB, NotUrl}}
    \cup {<<KV("output", List(<<>>)), KV("results", List(<<i>>))>> :
            i \in {Dict(<<KV("url", HttpB)>>), Dict(<<KV("b64", B64Three)>>)}}

\* the top-level url field of a result payload
UrlParts == {<<>>, <<KV("url", HttpA)>>, <<KV("url", Str(<<>>))>>}

\* whatever else a result payload carries
OtherParts ==
    {<<>>,
     <<KV("seed", NotUrl)>>,
     <<KV("data", Dict(<<KV("image", HttpC)>>))>>,
     <<KV("data", List(<<HttpC>>))>>,
     <<KV("data", List(<<Dict(<<KV("image", HttpC)>>)>>))>>}

\* replies of the result endpoint
ResultPayloads ==
    {Dict(u \o o \o x) : u \in UrlParts, o \in OutputParts, x \in OtherParts}
    \cup {Dict(<<KV("url", NotUrl)>>), Null, List(<<HttpA>>),
          List(<<Dict(<<KV("url", HttpA)>>)>>)}

PngBytes == <<137, 80, 78, 71>>

\* what an image host serves: the body and the declared Content-Type values
Served(content, headers) == [content |-> content, headers |-> headers]

NothingServed == Served(<<>>, {})

ServedReplies ==
    {Served(c, h) : c \in {<<>>, PngBytes}, h \in {{}, {"image/jpeg"}, {""}}}

----------------------------------------------------------------------------
(* State.  The configuration is read once when the process starts; the     *)
(* rest is the request being served, with a record of its provider calls.  *)

VARIABLES
    DO_MODEL_ACCESS_KEY,  \* the credential, "" when the environment sets none
    POLL_TIMEOUT,         \* ticks
    POLL_INTERVAL,        \* ticks
    pc,                   \* where generate stands
    data,                 \* the posted JSON body
    prompt,               \* the stripped prompt
    model_id,
    start,                \* the reply to the job creation, while generate reads it
    request_id,
    waited,               \* time.time() - start of the poller
    s,                    \* the poller's latest status reply
    final,                \* the result payload
    plan,                 \* the image reference the extractor settled on
    served,               \* what the image host returned
    raised,               \* the exception that left the try block
    response,             \* the HTTP response of generate
    calls,                \* provider calls of this request, by endpoint
    calledWith,           \* the job ids those calls named
    thread,               \* the serving thread that is running
    peer                  \* the locals of the serving thread that is not

vars == <<DO_MODEL_ACCESS_KEY, POLL_TIMEOUT, POLL_INTERVAL, pc, data, prompt,
          model_id, start, request_id, waited, s, final, plan, served, raised,
          response, calls, calledWith, thread, peer>>

config == <<DO_MODEL_ACCESS_KEY, POLL_TIMEOUT, POLL_INTERVAL>>

threads == <<thread, peer>>

NoCalls == [submit |-> 0, status |-> 0, result |-> 0, image |-> 0]

NoPlan == Plan("", Null)

\* the state between two requests
Fresh ==
    /\ data = Null
    /\ prompt = <<>>
    /\ model_id = Null
    /\ start = Null
    /\ request_id = Null
    /\ waited = 0
    /\ s = Null
    /\ final = Null
    /\ plan = NoPlan
    /\ served = NothingServed
    /\ raised = NoExc
    /\ response = NoResp
    /\ calls = NoCalls
    /\ calledWith = {}

\* what a serving thread holds of the request it handles
Locals ==
    [pc |-> pc, data |-> data, prompt |-> prompt, model_id |-> model_id,
     start |-> start, request_id |-> request_id, waited |-> waited, s |-> s,
     final |-> final, plan |-> plan, served |-> served, raised |-> raised,
     response |-> response, calls |-> calls, calledWith |-> calledWith]

\* a serving thread that has no request yet
IdleThread ==
    [pc |-> "idle", data |-> Null, prompt |-> <<>>, model_id |-> Null,
     start |-> Null, request_id |-> Null, waited |-> 0, s |-> Null,
     final |-> Null, plan |-> NoPlan, served |-> NothingServed,
     raised |-> NoExc, response |-> NoResp, calls |-> NoCalls,
     calledWith |-> {}]

Init ==
    /\ DO_MODEL_ACCESS_KEY \in {"", "dop_v1_key"}
    /\ POLL_TIMEOUT \in 0..MaxPollTimeout
    /\ POLL_INTERVAL \in 1..MaxPollInterval
    /\ pc = "idle"
    /\ Fresh
    /\ thread = 1
    /\ peer = IdleThread

\* the handler returns: resp is sent and the request is over
Return(resp) ==
    /\ pc' = "responded"
    /\ response' = resp

\* an exception that no except clause takes: the handler ends unanswered
Raise_Uncaught(e) ==
    /\ raised' = e
    /\ pc' = "raised"
    /\ response' = response

\* an exception leaves the try block and an except clause answers
Raise(e) ==
    /\ raised' = e
    /\ Return(HandleException(e))

\* generate without its credential check
Validate_NoKeyCheck(body) ==
    /\ pc \in {"idle", "responded"}
    /\ data' = body
    /\ start' = Null /\ request_id' = Null /\ waited' = 0 /\ s' = Null
    /\ final' = Null /\ plan' = NoPlan /\ served' = NothingServed
    /\ raised' = NoExc /\ calls' = NoCalls /\ calledWith' = {}
    /\ prompt' = Strip(Or(Get(body, "prompt"), Str(<<>>)).s)
    /\ model_id' = Or(Get(body, "model_id"), DefaultModel)
    /\ IF prompt' = <<>>
       THEN Return(PromptRequired)
       ELSE pc' = "submit" /\ response' = NoResp
    /\ UNCHANGED <<config, threads>>

\* generate, from its entry to the try block: the credential check, the
\* parsing of the body, the prompt check
Validate(body) ==
    /\ pc \in {"idle", "responded"}
    /\ data' = body
    /\ start' = Null /\ request_id' = Null /\ waited' = 0 /\ s' = Null
    /\ final' = Null /\ plan' = NoPlan /\ served' = NothingServed
    /\ raised' = NoExc /\ calls' = NoCalls /\ calledWith' = {}
    /\ IF DO_MODEL_ACCESS_KEY = ""
       THEN /\ Return(NotConfigured)
            /\ prompt' = <<>> /\ model_id' = Null
       ELSE /\ prompt' = Strip(Or(Get(body, "prompt"), Str(<<>>)).s)
            /\ model_id' = Or(Get(body, "model_id"), DefaultModel)
            /\ IF prompt' = <<>>
               THEN Return(PromptRequired)
               ELSE pc' = "submit" /\ response' = NoResp
    /\ UNCHANGED <<config, threads>>

\* a failed job creation tried again
Submit_Retry(outcome) ==
    /\ pc = "submit"
    /\ calls' = [calls EXCEPT !.submit = @ + 1]
    /\ IF outcome \in {HTTPError, RequestException}
       THEN UNCHANGED <<pc, raised, response, start, request_id>>
       ELSE /\ start' = outcome
            /\ request_id' = RequestIdOf(start')
            /\ raised' = raised
            /\ IF ~Truthy(request_id')
               THEN Return(UnexpectedStart(start'))
               ELSE pc' = "polling" /\ response' = response
    /\ waited' = 0
    /\ UNCHANGED <<config, threads, data, prompt, model_id, s, final, plan, served, calledWith>>

\* start_async_invoke and the reading of the job id; on a job id the
\* poller starts its clock
Submit(outcome) ==
    /\ pc = "submit"
    /\ calls' = [calls EXCEPT !.submit = @ + 1]
    /\ IF outcome \in {HTTPError, RequestException}
       THEN /\ Raise(outcome)
            /\ UNCHANGED <<start, request_id>>
       ELSE /\ start' = outcome
            /\ request_id' = RequestIdOf(start')
            /\ raised' = raised
            /\ IF ~Truthy(request_id')
               THEN Return(UnexpectedStart(start'))
               ELSE pc' = "polling" /\ response' = response
    /\ waited' = 0
    /\ UNCHANGED <<config, threads, data, prompt, model_id, s, final, plan, served, calledWith>>

\* the timeout looked at before the reply is classified
Poll_ClockFirst(outcome, ticks) ==
    /\ pc = "polling"
    /\ calls' = [calls EXCEPT !.status = @ + 1]
    /\ calledWith' = calledWith \cup {<<"status", request_id>>}
    /\ IF outcome \in {HTTPError, RequestException}
       THEN /\ Raise(outcome)
            /\ waited' = waited + ticks
            /\ s' = s
       ELSE /\ s' = outcome
            /\ IF TimedOut(waited + ticks, POLL_TIMEOUT)
               THEN /\ Raise(PollTimeout)
                    /\ waited' = waited + ticks
               ELSE IF IsSuccessState(StateOf(outcome))
               THEN /\ pc' = "result"
                    /\ waited' = waited + ticks
                    /\ UNCHANGED <<raised, response>>
               ELSE IF IsFailureState(StateOf(outcome))
               THEN /\ Raise(JobFailed(outcome))
                    /\ waited' = waited + ticks
               ELSE /\ waited' = waited + ticks + POLL_INTERVAL
                    /\ UNCHANGED <<pc, raised, response>>
    /\ UNCHANGED <<config, threads, data, prompt, model_id, start, request_id, final, plan, served>>

\* one turn of the loop of poll_until_complete: get_status, which takes
\* ticks of time, the classification of the reply, the timeout check and
\* the sleep
Poll(outcome, ticks) ==
    /\ pc = "polling"
    /\ calls' = [calls EXCEPT !.status = @ + 1]
    /\ calledWith' = calledWith \cup {<<"status", request_id>>}
    /\ IF outcome \in {HTTPError, RequestException}
       THEN /\ Raise(outcome)
            /\ waited' = waited + ticks
            /\ s' = s
       ELSE /\ s' = outcome
            /\ IF IsSuccessState(StateOf(outcome))
               THEN /\ pc' = "result"
                    /\ waited' = waited + ticks
                    /\ UNCHANGED <<raised, response>>
               ELSE IF IsFailureState(StateOf(outcome))
               THEN /\ Raise(JobFailed(outcome))
                    /\ waited' = waited + ticks
               ELSE IF TimedOut(waited + ticks, POLL_TIMEOUT)
               THEN /\ Raise(PollTimeout)
                    /\ waited' = waited + ticks
               ELSE /\ waited' = waited + ticks + POLL_INTERVAL
                    /\ UNCHANGED <<pc, raised, response>>
    /\ UNCHANGED <<config, threads, data, prompt, model_id, start, request_id, final, plan, served>>

\* return get_result(request_id), which ends the poller: its locals are
\* gone once it has returned, and generate reads start no more
Result(outcome) ==
    /\ pc = "result"
    /\ calls' = [calls EXCEPT !.result = @ + 1]
    /\ calledWith' = calledWith \cup {<<"result", request_id>>}
    /\ IF outcome \in {HTTPError, RequestException}
       THEN /\ Raise(outcome)
            /\ UNCHANGED <<final, waited, s, start>>
       ELSE /\ final' = outcome
            /\ pc' = "extracting"
            /\ waited' = 0 /\ s' = Null /\ start' = Null
            /\ UNCHANGED <<raised, response>>
    /\ UNCHANGED <<config, threads, data, prompt, model_id, request_id, plan, served>>

\* img_bytes sent without the test for emptiness
Respond_Unchecked(img_bytes, mime) ==
    Return(SendFile(img_bytes, mime))

\* the rest of generate once extract_image_bytes has img_bytes and mime
Respond(img_bytes, mime) ==
    IF Len(img_bytes) = 0
    THEN Return(NoImageFound(final))
    ELSE Return(SendFile(img_bytes, mime))

\* extract_image_bytes(final) and the response that follows it
Extract(outcome) ==
    /\ pc = "extracting"
    /\ plan' = ExtractPlan(final)
    /\ CASE plan'.kind = "raise" ->
              /\ Raise(AttributeError)
              /\ UNCHANGED <<calls, served>>
         [] plan'.kind = "none" ->
              /\ Respond(<<>>, "")
              /\ UNCHANGED <<calls, served, raised>>
         [] plan'.kind = "b64" ->
              /\ IF B64Decode(plan'.ref.s).ok
                 THEN Respond(B64Decode(plan'.ref.s).bytes, "image/png") /\ raised' = raised
                 ELSE Raise(BinasciiError)
              /\ UNCHANGED <<calls, served>>
         [] plan'.kind = "fetch" /\ ~StartsWithHttp(plan'.ref.s) ->
              /\ Raise(RequestException)
              /\ UNCHANGED <<calls, served>>
         [] OTHER ->
              /\ calls' = [calls EXCEPT !.image = @ + 1]
              /\ IF outcome \in {HTTPError, RequestException}
                 THEN Raise(outcome) /\ served' = served
                 ELSE /\ served' = outcome
                      /\ Respond(outcome.content, ContentType(outcome.headers))
                      /\ raised' = raised
    /\ UNCHANGED <<config, threads, data, prompt, model_id, start, request_id, waited, s, final, calledWith>>

Failures == {HTTPError, RequestException}

Next ==
    \/ \E body \in RequestBodies : Validate(body)
    \/ \E outcome \in StartReplies \cup Failures : Submit(outcome)
    \/ \E outcome \in StatusReplies \cup Failures, ticks \in 0..MaxCallTicks :
          Poll(outcome, ticks)
    \/ \E outcome \in ResultPayloads \cup Failures : Result(outcome)
    \/ \E outcome \in ServedReplies \cup Failures : Extract(outcome)

Spec == Init /\ [][Next]_vars

----------------------------------------------------------------------------
(* A request that is served to its end.  Every call to the provider or to  *)
(* the image host is made with timeout=, so it returns or raises, and      *)
(* time.sleep returns: a handler that can take a step takes it.            *)

LiveResultPayloads ==
    {Null, Dict(<<>>), Dict(<<KV("url", HttpA)>>), Dict(<<KV("url", NotUrl)>>),
     Dict(<<KV("output", List(<<Dict(<<KV("b64", B64One)>>)>>))>>),
     Dict(<<KV("output", List(<<Dict(<<KV("base64", B64Bad)>>)>>))>>)}

Handle ==
    \/ \E outcome \in StartReplies \cup Failures : Submit(outcome)
    \/ \E outcome \in StatusReplies \cup Failures, ticks \in 0..MaxCallTicks :
          Poll(outcome, ticks)
    \/ \E outcome \in LiveResultPayloads \cup Failures : Result(outcome)
    \/ \E outcome \in ServedReplies \cup Failures : Extract(outcome)

NextLive ==
    \/ \E body \in RequestBodies : Validate(body)
    \/ Handle

LiveSpec == Init /\ [][NextLive]_vars /\ WF_vars(Handle)

----------------------------------------------------------------------------
(* Two requests at once.  The server gives each request a thread of its    *)
(* own; the threads share the module's globals and nothing else, and the   *)
(* processor passes from one to the other between any two steps.           *)

OtherThread == IF thread = 1 THEN 2 ELSE 1

\* request_id kept in a module global, which both threads read and write
Switch_SharedId ==
    /\ thread' = OtherThread
    /\ peer' = Locals
    /\ pc' = peer.pc /\ data' = peer.data /\ prompt' = peer.prompt
    /\ model_id' = peer.model_id /\ start' = peer.start
    /\ request_id' = request_id
    /\ waited' = peer.waited /\ s' = peer.s /\ final' = peer.final
    /\ plan' = peer.plan /\ served' = peer.served /\ raised' = peer.raised
    /\ response' = peer.response /\ calls' = peer.calls
    /\ calledWith' = peer.calledWith
    /\ UNCHANGED config

\* the other thread runs: each thread has the locals of its own call of
\* generate, the globals stay
Switch ==
    /\ thread' = OtherThread
    /\ peer' = Locals
    /\ pc' = peer.pc /\ data' = peer.data /\ prompt' = peer.prompt
    /\ model_id' = peer.model_id /\ start' = peer.start
    /\ request_id' = peer.request_id
    /\ waited' = peer.waited /\ s' = peer.s /\ final' = peer.final
    /\ plan' = peer.plan /\ served' = peer.served /\ raised' = peer.raised
    /\ response' = peer.response /\ calls' = peer.calls
    /\ calledWith' = peer.calledWith
    /\ UNCHANGED config

PairBodies == {Dict(<<KV("prompt", Str(<<"a", " ", "b">>)), KV("model_id", Str(<<"m">>))>>)}

PairStartReplies == {Dict(<<>>), Dict(<<KV("request_id", R1)>>), Dict(<<KV("id", R2)>>)}

PairStatusReplies ==
    {Dict(<<KV("status", Str(S_running))>>), Dict(<<KV("status", Str(S_success))>>),
     Dict(<<KV("state", Str(S_failed))>>)}

PairResultPayloads == {Dict(<<KV("url", HttpA)>>), Dict(<<KV("url", HttpB)>>), Dict(<<>>)}

PairServedReplies == {Served(PngBytes, {"image/jpeg"})}

InitPair ==
    /\ DO_MODEL_ACCESS_KEY = "dop_v1_key"
    /\ POLL_TIMEOUT = 1
    /\ POLL_INTERVAL = 1
    /\ pc = "idle"
    /\ Fresh
    /\ thread = 1
    /\ peer = IdleThread

NextPair ==
    \/ Switch
    \/ \E body \in PairBodies : Validate(body)
    \/ \E outcome \in PairStartReplies \cup {HTTPError} : Submit(outcome)
    \/ \E outcome \in PairStatusReplies, ticks \in 0..MaxCallTicks :
          Poll(outcome, ticks)
    \/ \E outcome \in PairResultPayloads : Result(outcome)
    \/ \E outcome \in PairServedReplies : Extract(outcome)

SpecPair == InitPair /\ [][NextPair]_vars

----------------------------------------------------------------------------
(* Vocabulary of the properties, stated without the operators above.       *)

\* the posted prompt is missing, null, empty or made of whitespace only
BlankPrompt(body) ==
    LET p == Get(body, "prompt")
    IN  p.t = "null" \/ (p.t = "str" /\ \A i \in 1..Len(p.s) : p.s[i] \in Whitespace)

\* chars is word in some mix of upper and lower case
SpelledAs(chars, word) ==
    /\ Len(chars) = Len(word)
    /\ \A i \in 1..Len(word) :
          \/ chars[i] = word[i]
          \/ \E j \in 1..Len(LowerLetters) :
                chars[i] = LowerLetters[j] /\ word[i] = UpperLetters[j]

\* the status a reply reports: its status field, or its state field when
\* it has no status
ReportedStatus(reply) ==
    IF Truthy(Get(reply, "status")) THEN Get(reply, "status").s
    ELSE IF Truthy(Get(reply, "state")) THEN Get(reply, "state").s
    ELSE <<>>

SaysSuccess(reply) ==
    \E w \in {SUCCESS, SUCCEEDED, COMPLETE} : SpelledAs(ReportedStatus(reply), w)

SaysFailure(reply) ==
    \E w \in {FAILED, ERROR} : SpelledAs(ReportedStatus(reply), w)

\* this step made a status query and the provider answered it with s'
StatusAnswered ==
    /\ calls'.status = calls.status + 1
    /\ raised'.type \notin {"HTTPError", "RequestException"}

\* this step starts the next request: nothing more is done for this one
RequestOver == calls' = NoCalls /\ calledWith' = {}

----------------------------------------------------------------------------
(* C1.  As claimed: every request whose prompt is missing, empty or        *)
(* whitespace-only is answered 400 and makes no provider call.  The code   *)
(* checks the credential first, so the claim fails on a server without     *)
(* credential.                                                              *)
\* C1, as claimed: a blank prompt is answered 400 without a provider call.
C1_BlankPromptIs400 ==
    (data.t = "dict" /\ BlankPrompt(data)) =>
        /\ pc = "responded"
        /\ response.status = 400
        /\ calls = NoCalls

\* C1, amended: a request whose prompt is missing, empty or whitespace-only
\* makes no provider call; it is answered 400 when the credential is
\* configured and 500 when it is not.
C1_BlankPromptRejected ==
    (data.t = "dict" /\ BlankPrompt(data)) =>
        /\ pc = "responded"
        /\ calls = NoCalls
        /\ response.status = IF DO_MODEL_ACCESS_KEY = "" THEN 500 ELSE 400

C1_Witness ==
    /\ pc = "responded"
    /\ Get(data, "prompt").t = "str"
    /\ Len(Get(data, "prompt").s) > 1
    /\ BlankPrompt(data)
    /\ response = PromptRequired

----------------------------------------------------------------------------
(* C2.  As claimed: a failure status from the provider is answered 502     *)
(* with the provider's reason in the body.  The failure is a RuntimeError, *)
(* which the last except clause answers with 500.                          *)
\* C2, as claimed: a job failure is answered 502 with the provider's reason.
C2_JobFailureIs502 ==
    (pc = "responded" /\ raised.type = "RuntimeError") =>
        /\ response.status = 502
        /\ Get(response.payload, "reason") = Get(s, "reason")

\* C2, amended: a failure status from the provider is answered 500, and the
\* body carries the provider's reply, its reason included.
C2_JobFailureIs500 ==
    (pc = "responded" /\ calls.status > 0 /\ SaysFailure(s)) =>
        /\ response.status = 500
        /\ response.payload = s
        /\ Get(response.payload, "reason") = Get(s, "reason")

C2_Witness ==
    /\ pc = "responded"
    /\ s = Dict(<<KV("status", Str(FAILED)), KV("reason", Str(<<"bad prompt">>))>>)
    /\ response.status = 500
    /\ Get(response.payload, "reason") = Str(<<"bad prompt">>)

----------------------------------------------------------------------------
(* C3.  A status reply that says SUCCESS, SUCCEEDED or COMPLETE in any     *)
(* case ends the polling: the next provider call is the one result fetch,  *)
(* for the same job id, no status query follows, and the poller hands on   *)
(* the payload it fetched.                                                  *)
C3_Stops ==
    (StatusAnswered /\ SaysSuccess(s')) =>
        pc' = "result" /\ calls'.result = 0

C3_Fetches ==
    (pc = "result") =>
        /\ calls'.status = calls.status
        /\ calls'.result = 1
        /\ <<"result", request_id>> \in calledWith'
        /\ request_id' = request_id
        /\ pc' \in {"extracting", "responded"}
        /\ (pc' = "extracting" <=> raised' = NoExc)

C3_HandsOn ==
    (pc = "extracting") =>
        /\ calls'.status = calls.status /\ calls'.result = calls.result
        /\ final' = final

C3_Once ==
    /\ calls.result <= 1
    /\ \A c \in calledWith : c[2] = request_id
    /\ pc = "extracting" => (calls.result = 1 /\ final \in ResultPayloads)

\* C3: a success status in any case is followed by exactly one result fetch
\* for the same job id and by no further status query.
C3_SuccessEndsPolling ==
    []C3_Once /\ [][C3_Stops /\ C3_Fetches /\ C3_HandsOn]_vars

C3_Witness ==
    /\ pc = "result"
    /\ calls.status = 2
    /\ ReportedStatus(s) = S_Succeeded
    /\ request_id = R2

----------------------------------------------------------------------------
(* C4.  A status reply that says FAILED or ERROR in any case makes the     *)
(* poller raise the job failure with the provider's reply in it; no status *)
(* query and no result fetch follow for that job.                          *)
C4_Raises ==
    (StatusAnswered /\ SaysFailure(s')) =>
        /\ pc' = "responded"
        /\ raised'.type = "RuntimeError"
        /\ raised'.payload = s'

C4_NothingFollows ==
    (pc = "responded" /\ raised.type = "RuntimeError") => RequestOver

C4_NoFetch ==
    (raised.type = "RuntimeError") =>
        /\ pc = "responded"
        /\ calls.result = 0
        /\ calls.image = 0
        /\ SaysFailure(s)

\* C4: a failure status in any case raises the job failure with the reply in
\* it, and neither a status query nor a result fetch follows.
C4_FailureEndsPolling ==
    []C4_NoFetch /\ [][C4_Raises /\ C4_NothingFollows]_vars

C4_Witness ==
    /\ pc = "responded"
    /\ raised.type = "RuntimeError"
    /\ ReportedStatus(s) = S_Error
    /\ calls.status = 2

----------------------------------------------------------------------------
(* C5.  As claimed: when no terminal status is reported within the         *)
(* timeout, the poller signals PollTimeout.  The poller looks at the clock *)
(* only after a pending reply, so a terminal status that arrives after the *)
(* timeout has passed is still acted on.                                    *)
\* C5, as claimed: a poller that saw no terminal status within the timeout
\* ends with PollTimeout.
C5_LateReplyIsTimeout ==
    (/\ pc \in {"result", "responded"}
     /\ POLL_TIMEOUT > 0
     /\ calls.status > 1 /\ calls.result = 0
     /\ raised.type \notin {"HTTPError", "RequestException"}
     /\ waited > POLL_TIMEOUT) => raised = PollTimeout

\* C5, amended: when a pending status reply arrives after more than the
\* timeout has passed since the poller started, the poller signals
\* PollTimeout, and nothing more is called for the request; until then it
\* keeps polling.
C5_Signals ==
    (StatusAnswered /\ ~SaysSuccess(s') /\ ~SaysFailure(s')) =>
        IF pc' = "polling"
        THEN waited' - POLL_INTERVAL <= POLL_TIMEOUT
        ELSE /\ pc' = "responded"
             /\ raised'.type = "TimeoutError"
             /\ waited' > POLL_TIMEOUT

C5_NothingFollows ==
    (pc = "responded" /\ raised.type = "TimeoutError") => RequestOver

C5_NoFetch ==
    (raised.type = "TimeoutError") =>
        /\ pc = "responded"
        /\ calls.result = 0
        /\ calls.image = 0
        /\ ~SaysSuccess(s) /\ ~SaysFailure(s)

\* C5, amended: a pending reply past the timeout raises PollTimeout, after
\* which the request makes no provider call.
C5_PendingPastTimeout ==
    []C5_NoFetch /\ [][C5_Signals /\ C5_NothingFollows]_vars

C5_Witness ==
    /\ pc = "responded"
    /\ raised = PollTimeout
    /\ calls.status = 3
    /\ ReportedStatus(s) = S_COMPLETED

----------------------------------------------------------------------------
(* C6.  A validated request that fails downstream is answered by the kind  *)
(* of failure: the poll timeout with 504, an upstream HTTP error with 502, *)
(* a finished job without image with 502 and the result payload, any other *)
(* exception with 500.                                                      *)
\* C6: timeout gives 504, HTTP error 502, no image 502 with the payload, any
\* other exception 500.
C6_FailuresMapped ==
    (pc = "responded" /\ calls.submit > 0) =>
        /\ raised.type = "TimeoutError" => response.status = 504
        /\ raised.type = "HTTPError" => response.status = 502
        /\ raised.type \notin {"", "TimeoutError", "HTTPError"} => response.status = 500
        /\ (raised = NoExc /\ plan.kind = "none") => response.status = 502
        /\ (raised = NoExc /\ plan # NoPlan /\ response.status # 200) =>
              /\ response.status = 502
              /\ response.payload = final
              /\ response.bytes = <<>>

C6_Witness ==
    /\ pc = "responded"
    /\ raised = NoExc
    /\ plan.kind = "none"
    /\ final.t = "dict"
    /\ Len(final.items) > 0
    /\ response.status = 502
    /\ response.payload = final

----------------------------------------------------------------------------
(* C7.  On a server without credential every request is answered 500 and   *)
(* no provider call is made.                                                *)
\* C7: without credential, 500 and no provider call.
C7_Unconfigured ==
    (DO_MODEL_ACCESS_KEY = "") =>
        /\ calls = NoCalls
        /\ pc \in {"idle", "responded"}
        /\ pc = "responded" => response.status = 500

C7_Witness ==
    /\ DO_MODEL_ACCESS_KEY = ""
    /\ pc = "responded"
    /\ ~BlankPrompt(data)
    /\ response.status = 500

----------------------------------------------------------------------------
(* Shapes of a result payload.                                              *)

\* the list under output, outputs or results
OutputList(p) ==
    IF Truthy(Get(p, "output")) THEN Get(p, "output")
    ELSE IF Truthy(Get(p, "outputs")) THEN Get(p, "outputs")
    ELSE Get(p, "results")

\* its first element, null when there is none
FirstOutput(p) ==
    IF OutputList(p).t = "list" /\ Len(OutputList(p).items) > 0
    THEN OutputList(p).items[1].v
    ELSE Null

RECURSIVE HttpStringsIn(_)
\* every string starting with http anywhere in the nesting of v
HttpStringsIn(v) ==
    IF v.t = "str" THEN (IF StartsWithHttp(v.s) THEN {v} ELSE {})
    ELSE UNION {HttpStringsIn(v.items[i].v) : i \in 1..Len(v.items)}

\* none of the shapes (a), (b), (c)
Unrecognized(p) ==
    /\ ~Truthy(Get(p, "url"))
    /\ ~(FirstOutput(p).t = "dict" /\ Truthy(Get(FirstOutput(p), "url")))
    /\ ~(FirstOutput(p).t = "dict" /\ Truthy(Get(FirstOutput(p), "base64")))
    /\ ~(FirstOutput(p).t = "dict" /\ Truthy(Get(FirstOutput(p), "b64")))
    /\ ~IsHttpStr(FirstOutput(p))

----------------------------------------------------------------------------
(* C8.  The extractor settles on the first of: (a) the top-level url, (b)  *)
(* the url and then the base64 text of the first output element, (c) the   *)
(* first output element when it is an http string, (d) what the recursive  *)
(* search finds; a top-level url beats a url in the output list.           *)
\* C8: the extractor's fixed priority order, first match wins.
C8_PriorityOrder ==
    (plan # NoPlan /\ final.t = "dict") =>
        LET top   == Get(final, "url")
            first == FirstOutput(final)
        IN  IF Truthy(top)
            THEN plan = Plan("fetch", top)
            ELSE IF first.t = "dict" /\ Truthy(Get(first, "url"))
            THEN plan = Plan("fetch", Get(first, "url"))
            ELSE IF first.t = "dict" /\ Truthy(Get(first, "base64"))
            THEN plan = Plan("b64", Get(first, "base64"))
            ELSE IF first.t = "dict" /\ Truthy(Get(first, "b64"))
            THEN plan = Plan("b64", Get(first, "b64"))
            ELSE IF IsHttpStr(first)
            THEN plan = Plan("fetch", first)
            ELSE \/ plan = Plan("none", Null)
                 \/ plan.kind = "fetch" /\ plan.ref \in HttpStringsIn(final)

C8_Witness ==
    /\ pc = "responded"
    /\ Get(final, "url") = HttpA
    /\ FirstOutput(final) = Dict(<<KV("url", HttpB)>>)
    /\ plan = Plan("fetch", HttpA)
    /\ calls.image = 1

----------------------------------------------------------------------------
(* C9.  A payload of no recognized shape that holds one http string,       *)
(* anywhere in its dicts and lists, resolves to that string.                *)
\* C9: the fallback search finds the one nested http string.
C9_FallbackFindsUrl ==
    (/\ plan # NoPlan
     /\ final.t = "dict"
     /\ Unrecognized(final)
     /\ Cardinality(HttpStringsIn(final)) = 1) =>
        \A u \in HttpStringsIn(final) : plan = Plan("fetch", u)

----------------------------------------------------------------------------
(* C10.  When the result payload holds a direct image URL (top-level, or   *)
(* of the first output element) and the image host serves an image there,  *)
(* the answer is 200, its body is the bytes served, its Content-Type the   *)
(* one the host declared (image/png when it declared none), and nothing    *)
(* wraps the bytes.                                                         *)
\* C10: 200 with the served bytes and the declared Content-Type.
C10_ImageRoundTrip ==
    (/\ pc = "responded"
     /\ final.t = "dict"
     /\ \/ Truthy(Get(final, "url"))
        \/ FirstOutput(final).t = "dict" /\ Truthy(Get(FirstOutput(final), "url"))
     /\ calls.image = 1 /\ raised = NoExc
     /\ served.content # <<>>) =>
        /\ plan.kind = "fetch"
        /\ plan.ref = IF Truthy(Get(final, "url")) THEN Get(final, "url")
                      ELSE Get(FirstOutput(final), "url")
        /\ response.status = 200
        /\ response.bytes = served.content
        /\ response.mimetype = IF served.headers \subseteq {""} THEN "image/png"
                               ELSE CHOOSE h \in served.headers : TRUE
        /\ response.text = <<>>
        /\ response.payload = Null

C10_Witness ==
    /\ pc = "responded"
    /\ Len(prompt) > 0
    /\ final = Dict(<<KV("output", List(<<Dict(<<KV("url", HttpB)>>)>>))>>)
    /\ plan = Plan("fetch", HttpB)
    /\ served = Served(PngBytes, {"image/jpeg"})
    /\ response = Resp(200, <<>>, Null, PngBytes, "image/jpeg")

----------------------------------------------------------------------------
(* C11.  A request passes RECEIVED, VALIDATED, SUBMITTED, POLLING,         *)
(* EXTRACTING, RESPONDING in that order and never goes back; each provider *)
(* call has the calls of the earlier stages behind it; a failure ends the  *)
(* request with its one response, and no call is made twice.               *)

\* how far generate has come
Stage ==
    CASE pc = "idle"       -> 0
      [] pc = "submit"     -> 1
      [] pc = "polling"    -> 2
      [] pc = "result"     -> 3
      [] pc = "extracting" -> 4
      [] OTHER             -> 5

C11_Forward ==
    /\ (pc \notin {"idle", "responded"}) =>
          \/ Stage' > Stage
          \/ pc = "polling" /\ pc' = "polling" /\ calls'.status = calls.status + 1
    /\ (pc = "responded") => RequestOver
    /\ (calls'.result = calls.result + 1) => SaysSuccess(s)

C11_CallsInOrder ==
    /\ calls.submit <= 1 /\ calls.result <= 1 /\ calls.image <= 1
    /\ calls.submit > 0 => (DO_MODEL_ACCESS_KEY # "" /\ ~BlankPrompt(data))
    /\ calls.status > 0 => (calls.submit = 1 /\ Truthy(request_id))
    /\ calls.result > 0 => calls.status > 0
    /\ calls.image > 0 => calls.result = 1
    /\ pc = "polling" => (calls.submit = 1 /\ calls.result = 0)
    /\ raised # NoExc => pc = "responded"
    /\ response # NoResp <=> pc = "responded"

\* C11: the stages are passed in order, each call after the earlier stages'
\* calls, none retried, and one response ends the request.
C11_StagesInOrder ==
    []C11_CallsInOrder /\ [][C11_Forward]_vars

C11_Witness ==
    /\ pc = "responded"
    /\ calls = [submit |-> 1, status |-> 2, result |-> 1, image |-> 1]
    /\ response.status = 200

----------------------------------------------------------------------------
(* C12.  The job id is the first non-empty one of the reply's request_id,  *)
(* id and requestId; a reply with none of them ends the request with 502   *)
(* carrying that reply, before any status query.                           *)

\* the reply has a non-empty string under key
Present(reply, key) ==
    \E i \in 1..Len(reply.items) :
        /\ reply.items[i].k = key
        /\ reply.items[i].v.t = "str"
        /\ Len(reply.items[i].v.s) > 0

\* what the reply holds under key
Field(reply, key) ==
    LET i == CHOOSE j \in 1..Len(reply.items) : reply.items[j].k = key
    IN  reply.items[i].v

\* the request has gone on to the poller
Polled == pc = "polling" \/ calls.status > 0

\* C12: request_id is the first present of request_id, id, requestId of
\* the reply; with none present the answer is 502 with the reply and no
\* status query.
C12_FirstPresentId ==
    start # Null =>
        IF Present(start, "request_id")
        THEN request_id = Field(start, "request_id") /\ Polled
        ELSE IF Present(start, "id")
        THEN request_id = Field(start, "id") /\ Polled
        ELSE IF Present(start, "requestId")
        THEN request_id = Field(start, "requestId") /\ Polled
        ELSE /\ pc = "responded"
             /\ response.status = 502
             /\ response.payload = start
             /\ calls = [NoCalls EXCEPT !.submit = 1]
             /\ calledWith = {}

C12_Witness ==
    /\ start # Null
    /\ \E i \in 1..Len(start.items) : start.items[i].v = Str(<<>>)
    /\ \A key \in {"request_id", "id", "requestId"} : ~Present(start, key)
    /\ response.status = 502

----------------------------------------------------------------------------
(* C13.  Two requests served at once share nothing that changes: each one  *)
(* queries the job its own submit created, and no step of one touches what *)
(* the other holds, so each runs as it would alone.                        *)

\* the job id of a reply to the job creation
OwnId(reply) ==
    IF Present(reply, "request_id") THEN Field(reply, "request_id")
    ELSE IF Present(reply, "id") THEN Field(reply, "id")
    ELSE Field(reply, "requestId")

C13_OwnJobId ==
    thread' = thread =>
        \A c \in calledWith' \ calledWith : c[2] = OwnId(start)

C13_Untouched ==
    /\ config' = config
    /\ thread' = thread => peer' = peer
    /\ thread' # thread => (peer' = Locals /\ Locals' = peer)

\* C13: in every interleaving of two requests each status and result call
\* names the job id of the caller's own submit, a step of one request
\* leaves the other's state as it was, and the globals never change.
C13_NothingShared ==
    [][C13_OwnJobId /\ C13_Untouched]_vars

C13_Witness ==
    /\ calls.result = 1
    /\ peer.pc = "polling" /\ peer.calls.status >= 1
    /\ request_id = R1 /\ peer.request_id = R2
    /\ \E c \in calledWith : c[2] = R1
    /\ \E c \in peer.calledWith : c[2] = R2

----------------------------------------------------------------------------
(* C14.  The job of a request keeps the id its submit gave it, its status  *)
(* never leaves a terminal value, and it yields at most one image.         *)

\* the status of the request's job as the poller has seen it
JobStatus ==
    CASE raised.type = "TimeoutError"      -> "TIMED_OUT"
      [] calls.result > 0                  -> "SUCCEEDED"
      [] s # Null /\ SaysSuccess(s)        -> "SUCCEEDED"
      [] s # Null /\ SaysFailure(s)        -> "FAILED"
      [] calls.status > 0                  -> "RUNNING"
      [] OTHER                             -> "PENDING"

C14_IdUsed ==
    /\ calls.submit = 0 => request_id = Null
    /\ \A c \in calledWith : c[2] = request_id
    /\ calls.image <= 1

C14_Kept ==
    ~RequestOver =>
        /\ calls.submit = 1 => request_id' = request_id
        /\ JobStatus \in {"SUCCEEDED", "FAILED", "TIMED_OUT"} => JobStatus' = JobStatus
        /\ plan # NoPlan => plan' = plan
        /\ response.status = 200 => response' = response

\* C14: the id named in provider calls is the one assigned at submit and
\* does not change; a terminal status stays; one image at most is produced.
C14_JobInvariants ==
    []C14_IdUsed /\ [][C14_Kept]_vars

C14_Witness ==
    /\ JobStatus = "SUCCEEDED"
    /\ calledWith = {<<"status", request_id>>, <<"result", request_id>>}
    /\ calls.image = 1
    /\ response.status = 200

----------------------------------------------------------------------------
(* C15.  A request that has been taken up is answered: the poll loop ends  *)
(* by the timeout even when every status reply is pending.                 *)

Handling == pc \in {"submit", "polling", "result", "extracting"}

\* C15: every request that is being handled eventually has its response.
C15_EventuallyResponds ==
    Handling ~> (pc = "responded")

C15_Witness ==
    /\ pc = "responded"
    /\ raised = PollTimeout
    /\ calls.status >= 2
    /\ ~SaysSuccess(s) /\ ~SaysFailure(s)

----------------------------------------------------------------------------
(* C16.  A status reply is classified by its status, or by its state when  *)
(* it has no status, whatever the case of the letters; a reply that is     *)
(* neither success nor failure makes the poller sleep one interval and ask *)
(* again, unless the timeout has passed.                                   *)

\* the word a reply is classified by
StatusWord(reply) ==
    IF Present(reply, "status") THEN Field(reply, "status").s
    ELSE IF Present(reply, "state") THEN Field(reply, "state").s
    ELSE <<>>

ClassOf(reply) ==
    IF \E w \in {SUCCESS, SUCCEEDED, COMPLETE} : SpelledAs(StatusWord(reply), w)
    THEN "success"
    ELSE IF \E w \in {FAILED, ERROR} : SpelledAs(StatusWord(reply), w)
    THEN "failure"
    ELSE "pending"

C16_Classified ==
    StatusAnswered =>
        CASE ClassOf(s') = "success" ->
                pc' = "result" /\ raised' = NoExc
          [] ClassOf(s') = "failure" ->
                pc' = "responded" /\ raised'.type = "RuntimeError"
          [] OTHER ->
                \/ /\ pc' = "responded" /\ raised' = PollTimeout
                   /\ waited' > POLL_TIMEOUT
                \/ /\ pc' = "polling" /\ raised' = NoExc
                   /\ waited' >= waited + POLL_INTERVAL
                   /\ waited' - POLL_INTERVAL <= POLL_TIMEOUT

\* C16: each status reply is classified by status, else state, uppercased;
\* a pending reply is followed by one interval of sleep and another query
\* unless the timeout has elapsed.
C16_StatusClassification ==
    [][C16_Classified]_vars

C16_Witness ==
    /\ pc = "result"
    /\ ~Present(s, "status") /\ Present(s, "state")
    /\ \E i \in 1..Len(s.items) : s.items[i].k = "status"
    /\ StatusWord(s) = S_complete

----------------------------------------------------------------------------
(* C17.  As claimed: for every result payload extract_image_bytes of       *)
(* app.py and extract_first_image_bytes of streamlit_app.py settle on the  *)
(* same image reference.  They do not when the first output is a string.   *)
\* C17, as claimed: the two extractors choose the same reference for the
\* payload the handler is about to extract from.
C17_SameReference ==
    pc = "extracting" => extract_first_image_bytes(final) = ExtractPlan(final)

----------------------------------------------------------------------------
(* C18.  The poller asks for the status at least once, and looks at the    *)
(* clock only after a pending reply: a reply that says success or failure  *)
(* is acted on however late it comes.                                      *)

C18_Queried ==
    (pc \in {"result", "extracting"} \/ raised.type \in {"TimeoutError", "RuntimeError"})
        => calls.status >= 1

C18_Step ==
    /\ (pc = "polling" /\ pc' # "polling") => calls'.status = calls.status + 1
    /\ (raised' = PollTimeout /\ raised # PollTimeout) =>
          /\ StatusAnswered
          /\ ClassOf(s') = "pending"
          /\ waited' > POLL_TIMEOUT
    /\ (StatusAnswered /\ waited' > POLL_TIMEOUT /\ ClassOf(s') = "success") =>
          (pc' = "result" /\ raised' = NoExc)
    /\ (StatusAnswered /\ waited' > POLL_TIMEOUT /\ ClassOf(s') = "failure") =>
          (raised'.type = "RuntimeError" /\ raised'.payload = s')

\* C18: at least one status query is made; the timeout is raised only
\* right after a pending reply; a terminal reply is honoured past the
\* timeout.
C18_TimeoutAfterPendingOnly ==
    []C18_Queried /\ [][C18_Step]_vars

C18_Witness ==
    /\ pc = "result"
    /\ POLL_TIMEOUT > 0
    /\ waited > POLL_TIMEOUT
    /\ calls.status >= 2
    /\ ClassOf(s) = "success"

----------------------------------------------------------------------------
(* C19.  200 is answered only at the end of a full run: credential, prompt,*)
(* job id, success status, result, image bytes.  An image of zero bytes is *)
(* answered 502 like a result without image.                               *)

C19_Only200 ==
    response.status = 200 =>
        /\ DO_MODEL_ACCESS_KEY # ""
        /\ ~BlankPrompt(data)
        /\ calls.submit = 1
        /\ request_id.t = "str" /\ Len(request_id.s) > 0
        /\ calls.status >= 1
        /\ calls.result = 1
        /\ final # Null
        /\ plan.kind \in {"fetch", "b64"}
        /\ Len(response.bytes) > 0
        /\ plan.kind = "fetch" => (calls.image = 1 /\ response.bytes = served.content)

C19_ZeroBytes ==
    (pc = "responded" /\ raised = NoExc /\ plan.kind \in {"fetch", "b64"}
        /\ response.status # 200) =>
        /\ response.status = 502
        /\ response.payload = final
        /\ plan.kind = "fetch" => (calls.image = 1 /\ served.content = <<>>)

C19_AfterSuccess ==
    calls'.result = calls.result + 1 => ClassOf(s) = "success"

\* C19: a 200 response implies a configured credential, a non-blank prompt,
\* a job id, a success status, a fetched result and non-empty image bytes;
\* an image of zero bytes is answered 502.
C19_SuccessOnlyAfterFullRun ==
    [](C19_Only200 /\ C19_ZeroBytes) /\ [][C19_AfterSuccess]_vars

C19_Witness ==
    /\ pc = "responded"
    /\ plan.kind = "fetch"
    /\ calls.image = 1
    /\ raised = NoExc
    /\ served.content = <<>>
    /\ response.status = 502

====
